---- MODULE Spec2Model ----
(***************************************************************************)
(* Model of the YFinance MCP server (src/remote_yfinance_mcp.py): the      *)
(* parameter validator, the rate limiter and the download_stock_data       *)
(* pipeline with its single retry and its response normalisation.          *)
(*                                                                         *)
(* Python strings that the code inspects character by character (tickers,  *)
(* start, end) are sequences of one-character strings; strings the code    *)
(* only compares for membership (period, interval) are TLA+ strings.       *)
(* Time is counted in ticks of 250 ms.                                     *)
(***************************************************************************)
EXTENDS Integers, Sequences, FiniteSets, TLC

\* ------------------------------------------------------------------------
\* Bounds of the model
\* ------------------------------------------------------------------------
MaxTime == 5
MaxRequests == 2
MaxRows == 3
MaxHealth == 1

\* ------------------------------------------------------------------------
\* Python values
\* ------------------------------------------------------------------------
\* Python's None for an optional string: a value no string of characters equals.
None == <<"None">>

\* Python truthiness of an optional string: None and "" are falsy.
Truthy(s) == s # None /\ s # <<>>

Digits == {"0", "1", "2", "3", "4", "5", "6", "7", "8", "9"}

DigitVal(c) ==
    CASE c = "0" -> 0 [] c = "1" -> 1 [] c = "2" -> 2 [] c = "3" -> 3
      [] c = "4" -> 4 [] c = "5" -> 5 [] c = "6" -> 6 [] c = "7" -> 7
      [] c = "8" -> 8 [] c = "9" -> 9

IsSpace(c) == c \in {" ", "\t", "\n"}

\* str.strip(): leading and trailing whitespace removed.
RECURSIVE LStrip(_)
LStrip(s) == IF s # <<>> /\ IsSpace(Head(s)) THEN LStrip(Tail(s)) ELSE s

RECURSIVE RStrip(_)
RStrip(s) ==
    IF s # <<>> /\ IsSpace(s[Len(s)]) THEN RStrip(SubSeq(s, 1, Len(s) - 1)) ELSE s

Strip(s) == RStrip(LStrip(s))

\* str.split(sep): the pieces between the occurrences of the character sep.
RECURSIVE SplitAcc(_, _, _)
SplitAcc(s, sep, cur) ==
    IF s = <<>> THEN <<cur>>
    ELSE IF Head(s) = sep THEN <<cur>> \o SplitAcc(Tail(s), sep, <<>>)
    ELSE SplitAcc(Tail(s), sep, Append(cur, Head(s)))

SplitOn(s, sep) == SplitAcc(s, sep, <<>>)

\* str.split(): the maximal runs of non-whitespace characters.
RECURSIVE SplitWs(_, _)
SplitWs(s, cur) ==
    IF s = <<>> THEN (IF cur = <<>> THEN <<>> ELSE <<cur>>)
    ELSE IF IsSpace(Head(s))
         THEN (IF cur = <<>> THEN <<>> ELSE <<cur>>) \o SplitWs(Tail(s), <<>>)
         ELSE SplitWs(Tail(s), Append(cur, Head(s)))

Split(s) == SplitWs(s, <<>>)

\* ------------------------------------------------------------------------
\* datetime.strptime(s, '%Y-%m-%d')
\* ------------------------------------------------------------------------
AllDigits(s) == \A i \in 1..Len(s) : s[i] \in Digits

RECURSIVE NumVal(_)
NumVal(s) == IF s = <<>> THEN 0 ELSE 10 * NumVal(SubSeq(s, 1, Len(s) - 1)) + DigitVal(s[Len(s)])

IsLeap(y) == (y % 4 = 0 /\ y % 100 # 0) \/ y % 400 = 0

DaysInMonth(y, m) ==
    IF m = 2 THEN (IF IsLeap(y) THEN 29 ELSE 28)
    ELSE IF m \in {4, 6, 9, 11} THEN 30 ELSE 31

\* TRUE when strptime returns a date, FALSE when it raises ValueError:
\* %Y is four digits, %m and %d one or two digits, the whole string is
\* consumed, and the fields form a date of the calendar.
StrptimeOK(s) ==
    LET parts == SplitOn(s, "-") IN
    /\ Len(parts) = 3
    /\ Len(parts[1]) = 4 /\ AllDigits(parts[1])
    /\ Len(parts[2]) \in {1, 2} /\ AllDigits(parts[2])
    /\ Len(parts[3]) \in {1, 2} /\ AllDigits(parts[3])
    /\ LET y == NumVal(parts[1])
           m == NumVal(parts[2])
           d == NumVal(parts[3])
       IN /\ y >= 1
          /\ m \in 1..12
          /\ d >= 1 /\ d <= DaysInMonth(y, m)

\* ------------------------------------------------------------------------
\* validate_parameters
\* ------------------------------------------------------------------------
valid_periods == <<"1d", "5d", "1mo", "3mo", "6mo", "1y", "2y", "5y", "10y", "ytd", "max">>

valid_intervals ==
    <<"1m", "2m", "5m", "15m", "30m", "60m", "90m", "1h", "1d", "5d", "1wk", "1mo", "3mo">>

Range(f) == {f[i] : i \in DOMAIN f}

ticker_warn_limit == 10

\* One entry of the errors list: the rule that failed, the offending field
\* and value the message echoes, and the allowed options the message lists.
Err(rule, field, value, options) ==
    [rule |-> rule, field |-> field, value |-> value, options |-> options]

\* Mutant: more than ticker_warn_limit tickers is an error, not a warning.
TickerErrors_RejectsMany(tickers) ==
    IF tickers = <<>> \/ Strip(tickers) = <<>>
    THEN <<Err("required", "tickers", tickers, <<>>)>>
    ELSE IF Len(Split(tickers)) > ticker_warn_limit
         THEN <<Err("too_many", "tickers", tickers, <<>>)>>
         ELSE <<>>

TickerErrors(tickers) ==
    IF tickers = <<>> \/ Strip(tickers) = <<>>
    THEN <<Err("required", "tickers", tickers, <<>>)>>
    ELSE <<>>

TickerWarnings(tickers) ==
    IF tickers = <<>> \/ Strip(tickers) = <<>> THEN <<>>
    ELSE IF Len(Split(tickers)) > ticker_warn_limit
         THEN <<[warning |-> "many_tickers", count |-> Len(Split(tickers))]>>
         ELSE <<>>

PeriodErrors(period) ==
    IF period # "" /\ period \notin Range(valid_periods)
    THEN <<Err("invalid_option", "period", period, valid_periods)>>
    ELSE <<>>

\* Mutant: the interval check skips an empty interval, as the period check does.
IntervalErrors_SkipsEmpty(interval) ==
    IF interval # "" /\ interval \notin Range(valid_intervals)
    THEN <<Err("invalid_option", "interval", interval, valid_intervals)>>
    ELSE <<>>

IntervalErrors(interval) ==
    IF interval \notin Range(valid_intervals)
    THEN <<Err("invalid_option", "interval", interval, valid_intervals)>>
    ELSE <<>>

\* Mutant: the message of the end check was copied from the start check.
DateErrors_NamesStart(field, value) ==
    IF Truthy(value) /\ ~StrptimeOK(value)
    THEN <<Err("date_format", "start", value, <<>>)>>
    ELSE <<>>

DateErrors(field, value) ==
    IF Truthy(value) /\ ~StrptimeOK(value)
    THEN <<Err("date_format", field, value, <<>>)>>
    ELSE <<>>

ConflictWarnings(period, start, end) ==
    IF (Truthy(start) \/ Truthy(end)) /\ period # "1y"
    THEN <<[warning |-> "range_and_period", count |-> 0]>>
    ELSE <<>>

\* Mutant: the checks stop at the first error.
validate_parameters_ShortCircuit(tickers, period, interval, start, end) ==
    LET all == TickerErrors(tickers) \o PeriodErrors(period) \o IntervalErrors(interval)
                 \o DateErrors("start", start) \o DateErrors("end", end)
        errors == IF all = <<>> THEN <<>> ELSE <<Head(all)>>
        warnings == TickerWarnings(tickers) \o ConflictWarnings(period, start, end)
    IN [valid |-> Len(errors) = 0, errors |-> errors, warnings |-> warnings]

validate_parameters(tickers, period, interval, start, end) ==
    LET errors == TickerErrors(tickers) \o PeriodErrors(period) \o IntervalErrors(interval)
                    \o DateErrors("start", start) \o DateErrors("end", end)
        warnings == TickerWarnings(tickers) \o ConflictWarnings(period, start, end)
    IN [valid |-> Len(errors) = 0, errors |-> errors, warnings |-> warnings]

\* ------------------------------------------------------------------------
\* State
\* ------------------------------------------------------------------------
Procs == {1, 2}

VARIABLES
    now,                 \* time.time(), in ticks
    last_request_time,   \* the module global of the rate limiter
    pc,                  \* per flow: where it is in download_stock_data
    params,              \* per flow: the arguments of the current call
    request_start_time,  \* per flow: local request_start_time
    validation,          \* per flow: local validation
    wake,                \* per flow: the instant time.sleep(sleep_time) may return
    download_args,       \* per flow: local download_args
    calls,               \* per flow: each yf.download call of this request: its
                         \* arguments and what it did
    response,            \* per flow: the returned JSON document
    reqid,               \* per flow: ordinal of the current request
    nreq,                \* requests issued so far
    fetchLog,            \* every yf.download call so far: instant, request, attempt
    status,              \* the JSON document the last get_server_status returned
    nhealth,             \* get_server_status calls so far
    hpc,                 \* where get_server_status is: "idle" or "probe"
    vin, vres,           \* validate_parameters alone: arguments and result
    tin, tres            \* response normalisation alone: table and result

vars == <<now, last_request_time, pc, params, request_start_time, validation, wake,
          download_args, calls, response, reqid, nreq, fetchLog,
          status, nhealth, hpc, vin, vres, tin, tres>>

pipeVars == <<now, last_request_time, pc, params, request_start_time, validation, wake,
              download_args, calls, response, reqid, nreq, fetchLog>>

\* min_request_interval = 0.5 s, in ticks of 250 ms.
min_request_interval == 2

\* ------------------------------------------------------------------------
\* Requests
\* ------------------------------------------------------------------------
DefaultFlags ==
    [actions |-> FALSE, auto_adjust |-> TRUE, prepost |-> FALSE,
     repair |-> FALSE, keepna |-> FALSE, rounding |-> FALSE]

OtherFlags ==
    [actions |-> TRUE, auto_adjust |-> FALSE, prepost |-> TRUE,
     repair |-> TRUE, keepna |-> TRUE, rounding |-> TRUE]

Params(tickers, period, interval, start, end, flags) ==
    [tickers |-> tickers, period |-> period, interval |-> interval,
     start |-> start, end |-> end, flags |-> flags]

NoParams == Params(<<>>, "", "", None, None, DefaultFlags)

\* request_params of the error responses: the five arguments echoed.
RequestParams(prm) ==
    [tickers |-> prm.tickers, period |-> prm.period, interval |-> prm.interval,
     start |-> prm.start, end |-> prm.end]

Validate(prm) ==
    validate_parameters(prm.tickers, prm.period, prm.interval, prm.start, prm.end)

NoValidation == [valid |-> FALSE, errors |-> <<>>, warnings |-> <<>>]

\* ------------------------------------------------------------------------
\* download_args
\* ------------------------------------------------------------------------
first_timeout == 30
retry_timeout == 15

BaseArgs(prm) ==
    [tickers |-> prm.tickers, interval |-> prm.interval,
     actions |-> prm.flags.actions, auto_adjust |-> prm.flags.auto_adjust,
     prepost |-> prm.flags.prepost, group_by |-> "column",
     repair |-> prm.flags.repair, keepna |-> prm.flags.keepna,
     rounding |-> prm.flags.rounding, timeout |-> first_timeout,
     threads |-> TRUE, progress |-> FALSE]

\* Mutant: period is passed along with the date range.
DateArgs_AlwaysPeriod(prm) ==
    (IF Truthy(prm.start) THEN "start" :> prm.start ELSE <<>>)
    @@ (IF Truthy(prm.end) THEN "end" :> prm.end ELSE <<>>)
    @@ ("period" :> prm.period)

\* The date parameters: start and/or end when either is truthy, else period.
DateArgs(prm) ==
    IF Truthy(prm.start) \/ Truthy(prm.end)
    THEN (IF Truthy(prm.start) THEN "start" :> prm.start ELSE <<>>)
         @@ (IF Truthy(prm.end) THEN "end" :> prm.end ELSE <<>>)
    ELSE "period" :> prm.period

BuildArgs(prm) == BaseArgs(prm) @@ DateArgs(prm)

\* call_tool of the stdio server: download_args after its date handling.
CallToolDateArgs(prm) ==
    ("tickers" :> prm.tickers)
    @@ (IF Truthy(prm.start) \/ Truthy(prm.end)
        THEN (IF Truthy(prm.start) THEN "start" :> prm.start ELSE <<>>)
             @@ (IF Truthy(prm.end) THEN "end" :> prm.end ELSE <<>>)
        ELSE "period" :> prm.period)

\* Mutant: the retry lowers the timeout and keeps threads.
RetryArgs_TimeoutOnly(args) == [args EXCEPT !["timeout"] = retry_timeout]

\* download_args.update({"timeout": 15, "threads": False})
RetryArgs(args) == [args EXCEPT !["timeout"] = retry_timeout, !["threads"] = FALSE]

NoArgs == [k \in {} |-> 0]

\* ------------------------------------------------------------------------
\* The upstream table and its conversion to records
\* ------------------------------------------------------------------------
\* What the conversion of a row's cell does: "num" is a number (float(val)),
\* "str" a non-numeric value (str(val)), "nan" a missing value (None), and
\* "bad" a value whose conversion raises inside the per-row try.
RowKinds == {"num", "str", "nan", "bad"}

\* A DataFrame: its rows in index order (the date of row i is i), whether
\* select_dtypes finds a numeric column, whether computing the statistics of
\* that column raises, and whether the frame raises outside the per-row and
\* summary try blocks (shape, columns, iterrows, json.dumps).
Table(rows, numeric, summary_raises, raises) ==
    [rows |-> rows, numeric |-> numeric, summary_raises |-> summary_raises,
     raises |-> raises]

SeqsUpTo(S, n) == UNION {[1..k -> S] : k \in 0..n}

\* The frames of at most MaxRows rows: a frame whose cells are all numbers or
\* missing has a numeric column, and only a numeric column has statistics.
Tables ==
    {t \in {Table(r, nu, sr, FALSE) :
                r \in SeqsUpTo(RowKinds, MaxRows), nu \in BOOLEAN, sr \in BOOLEAN} :
        /\ t.numeric \/ \E i \in DOMAIN t.rows : t.rows[i] \in {"str", "bad"}
        /\ t.summary_raises => t.numeric}

\* The record of one row that converts.
Record(date, kind) ==
    [date |-> date,
     value |-> CASE kind = "num" -> "float" [] kind = "str" -> "str" [] kind = "nan" -> "null"]

\* Mutant: the first row that fails ends the loop (break for continue).
RECURSIVE ConvertRows_BreaksOnBadRow(_, _, _)
ConvertRows_BreaksOnBadRow(rows, i, acc) ==
    IF i > Len(rows) \/ rows[i] = "bad" THEN acc
    ELSE ConvertRows_BreaksOnBadRow(rows, i + 1,
                     [data |-> Append(acc.data, Record(i, rows[i])),
                      records_processed |-> acc.records_processed + 1])

\* The for loop over data.iterrows(), from row i on: a row whose conversion
\* raises is skipped (except ... continue); every other row appends its record
\* to result["data"] and adds one to records_processed.
RECURSIVE ConvertRows(_, _, _)
ConvertRows(rows, i, acc) ==
    IF i > Len(rows) THEN acc
    ELSE IF rows[i] = "bad" THEN ConvertRows(rows, i + 1, acc)
    ELSE ConvertRows(rows, i + 1,
                     [data |-> Append(acc.data, Record(i, rows[i])),
                      records_processed |-> acc.records_processed + 1])

\* result["summary"]: absent without a numeric column, the error marker when
\* the statistics raise, else the date range and the two record counts.
Summary(table, records_processed) ==
    IF Len(table.rows) > 0 /\ table.numeric
    THEN IF table.summary_raises
         THEN [kind |-> "error", start_date |-> 0, end_date |-> 0,
               total_records |-> 0, records_processed |-> 0]
         ELSE [kind |-> "stats", start_date |-> 1, end_date |-> Len(table.rows),
               total_records |-> Len(table.rows), records_processed |-> records_processed]
    ELSE [kind |-> "absent", start_date |-> 0, end_date |-> 0,
          total_records |-> 0, records_processed |-> 0]

\* The "period" field of the result: period, or "<start or N/A> to <end or N/A>".
PeriodField(prm) ==
    IF ~(Truthy(prm.start) \/ Truthy(prm.end))
    THEN [period |-> prm.period, from |-> <<>>, to |-> <<>>]
    ELSE [period |-> "",
          from |-> IF Truthy(prm.start) THEN prm.start ELSE <<"N", "/", "A">>,
          to |-> IF Truthy(prm.end) THEN prm.end ELSE <<"N", "/", "A">>]

\* ------------------------------------------------------------------------
\* Responses
\* ------------------------------------------------------------------------
NoResponse == [success |-> FALSE, error_type |-> "none"]

\* Mutant: only the first error is reported.
ValidationErrorResponse_FirstErrorOnly(prm, val, t) ==
    [success |-> FALSE, error_type |-> "validation_error",
     errors |-> SubSeq(val.errors, 1, 1),
     timestamp |-> t, request_params |-> RequestParams(prm)]

ValidationErrorResponse(prm, val, t) ==
    [success |-> FALSE, error_type |-> "validation_error", errors |-> val.errors,
     timestamp |-> t, request_params |-> RequestParams(prm)]

\* Mutant: the echo drops the period that a date range overrides.
NoDataResponse_EchoesEffective(prm, t) ==
    [success |-> FALSE, error_type |-> "no_data", timestamp |-> t,
     request_params |->
        [RequestParams(prm) EXCEPT
            !.period = IF Truthy(prm.start) \/ Truthy(prm.end) THEN "" ELSE prm.period]]

NoDataResponse(prm, t) ==
    [success |-> FALSE, error_type |-> "no_data", timestamp |-> t,
     request_params |-> RequestParams(prm)]

UnexpectedErrorResponse(prm, t, t0) ==
    [success |-> FALSE, error_type |-> "unexpected_error", timestamp |-> t,
     processing_time_seconds |-> t - t0, request_params |-> RequestParams(prm)]

\* Mutant: a request that took time gets a warning that says how long.
SuccessResponse_WarnsWhenSlow(prm, val, table, t, t0) ==
    LET conv == ConvertRows(table.rows, 1, [data |-> <<>>, records_processed |-> 0]) IN
    [success |-> TRUE, error_type |-> "",
     tickers |-> prm.tickers, period |-> PeriodField(prm), interval |-> prm.interval,
     shape |-> Len(table.rows), data |-> conv.data,
     metadata |-> [request_time |-> t, processing_time_seconds |-> t - t0,
                   warnings |-> IF t - t0 > 0
                                THEN Append(val.warnings, [warning |-> "slow_request",
                                                           count |-> t - t0])
                                ELSE val.warnings],
     summary |-> Summary(table, conv.records_processed)]

SuccessResponse(prm, val, table, t, t0) ==
    LET conv == ConvertRows(table.rows, 1, [data |-> <<>>, records_processed |-> 0]) IN
    [success |-> TRUE, error_type |-> "",
     tickers |-> prm.tickers, period |-> PeriodField(prm), interval |-> prm.interval,
     shape |-> Len(table.rows), data |-> conv.data,
     metadata |-> [request_time |-> t, processing_time_seconds |-> t - t0,
                   warnings |-> val.warnings],
     summary |-> Summary(table, conv.records_processed)]

\* What one yf.download call does: raises, returns None, or returns a frame.
Outcome(kind, table) == [kind |-> kind, table |-> table]

NoTable == Table(<<>>, FALSE, FALSE, FALSE)

\* Mutant: no outer except, so a frame that raises ends the call with the
\* exception instead of a response.
Finish_NoOuterExcept(prm, val, out, t, t0) ==
    IF out.kind = "none" \/ Len(out.table.rows) = 0 THEN NoDataResponse(prm, t)
    ELSE IF out.table.raises THEN [success |-> FALSE, error_type |-> "uncaught_exception"]
    ELSE SuccessResponse(prm, val, out.table, t, t0)

\* Lines 193-318 for the value yf.download returned: None or an empty frame
\* is no_data, a frame that raises is caught by the outer except, any other
\* frame is converted.
Finish(prm, val, out, t, t0) ==
    IF out.kind = "none" \/ Len(out.table.rows) = 0 THEN NoDataResponse(prm, t)
    ELSE IF out.table.raises THEN UnexpectedErrorResponse(prm, t, t0)
    ELSE SuccessResponse(prm, val, out.table, t, t0)

\* ------------------------------------------------------------------------
\* Inputs
\* ------------------------------------------------------------------------
\* n ticker symbols separated by single spaces.
RECURSIVE TickerString(_)
TickerString(n) == IF n <= 1 THEN <<"A">> ELSE TickerString(n - 1) \o <<" ", "B">>

DateStrings ==
    {y \o <<sep>> \o m \o <<sep>> \o d :
        y \in {<<"2", "0", "2", "4">>, <<"2", "0", "2", "3">>, <<"2", "4">>},
        m \in {<<"0", "2">>, <<"2">>, <<"1", "3">>},
        d \in {<<"5">>, <<"2", "9">>},
        sep \in {"-", "/"}}

D_ok == <<"2", "0", "2", "4", "-", "0", "1", "-", "1", "5">>
D_slash == <<"2", "0", "2", "4", "/", "0", "1", "/", "0", "1">>

\* Arguments for validate_parameters alone.
ValTickers == {<<>>, <<" ", " ">>, <<" ", "A", " ">>, TickerString(ticker_warn_limit + 1)}
ValPeriods == {"1y", "max", "", "1w"}
ValIntervals == {"1d", "", "1y"}
ValDates == DateStrings \cup {None, <<>>, D_ok, D_slash}

\* Arguments of the requests of the pipeline: a period alone, a start alone,
\* an end alone, both, an empty period, eleven tickers with a date range and
\* a period, the other value of every flag, and three invalid requests.
PipeInputs ==
    {Params(TickerString(1), "1y", "1d", None, None, DefaultFlags),
     Params(TickerString(1), "1mo", "1d", D_ok, None, DefaultFlags),
     Params(TickerString(1), "1y", "1h", <<>>, D_ok, DefaultFlags),
     Params(TickerString(2), "max", "1d", D_ok, D_ok, DefaultFlags),
     Params(TickerString(1), "", "1d", None, None, DefaultFlags),
     Params(TickerString(ticker_warn_limit + 1), "5d", "1d", None, D_ok, DefaultFlags),
     Params(TickerString(1), "1y", "1d", None, None, OtherFlags),
     Params(<<" ">>, "1w", "1d", D_slash, None, DefaultFlags),
     Params(TickerString(1), "1y", "1x", None, None, DefaultFlags),
     Params(TickerString(1), "1y", "1d", D_ok, D_slash, DefaultFlags)}

\* One yf.download call: its keyword arguments and what it did.
Call(args, out) == [args |-> args, out |-> out]

\* A yf.download call that has not ended yet.
Running == Outcome("running", NoTable)

\* What yf.download may do in the pipeline.
PipeTables ==
    {Table(<<>>, TRUE, FALSE, FALSE),
     Table(<<"num">>, TRUE, FALSE, FALSE),
     Table(<<"num", "bad", "nan">>, TRUE, FALSE, FALSE),
     Table(<<"str", "bad">>, FALSE, FALSE, FALSE),
     Table(<<"num", "num">>, TRUE, TRUE, FALSE),
     Table(<<"num">>, TRUE, FALSE, TRUE)}

PipeOutcomes ==
    {Outcome("raise", NoTable), Outcome("none", NoTable)}
    \cup {Outcome("table", t) : t \in PipeTables}

\* Requests around the ticker warning limit: ten and twelve tickers, and
\* eleven with surrounding and doubled whitespace, each with valid and with
\* invalid other arguments.
ManyTickerInputs ==
    {Params(t, o[1], o[2], o[3], o[4], DefaultFlags) :
        t \in {TickerString(ticker_warn_limit), TickerString(ticker_warn_limit + 2),
               <<" ", "C", " ">> \o TickerString(ticker_warn_limit) \o <<" ">>},
        o \in {<<"1y", "1d", None, None>>, <<"5d", "1h", None, D_ok>>,
               <<"1w", "1d", D_slash, None>>}}

\* Valid requests for two runs of the same call: a period request, and a
\* date range given with a period (valid, with a warning).
IdemInputs ==
    {Params(<<"A">>, "1y", "1d", None, None, DefaultFlags),
     Params(<<"A", " ", "B">>, "5d", "1h", D_ok, None, OtherFlags)}

\* What yf.download may do in the two runs: raise, or return one of two
\* frames (one with a row that fails conversion).
IdemOutcomes ==
    {Outcome("raise", NoTable),
     Outcome("table", Table(<<"num", "bad", "nan">>, TRUE, FALSE, FALSE)),
     Outcome("table", Table(<<"str">>, FALSE, FALSE, FALSE))}

\* A short list of what yf.download may do.
FewOutcomes ==
    {Outcome("raise", NoTable), Outcome("none", NoTable),
     Outcome("table", Table(<<"num", "bad">>, TRUE, FALSE, FALSE))}

\* ------------------------------------------------------------------------
\* get_server_status
\* ------------------------------------------------------------------------
NoStatus == [server |-> "", yfinance_connection |-> "", last_test |-> 0, error |-> FALSE]

\* The status document for what the probe yf.download("AAPL", period="1d")
\* did: a frame with rows is healthy/ok, an empty frame healthy/degraded, and
\* an exception (raised by the probe, or by test_data.empty on None) is
\* caught and reported as degraded/error.
StatusOf(out, t) ==
    IF out.kind \in {"raise", "none"}
    THEN [server |-> "degraded", yfinance_connection |-> "error", last_test |-> t,
          error |-> TRUE]
    ELSE [server |-> "healthy",
          yfinance_connection |-> IF Len(out.table.rows) > 0 THEN "ok" ELSE "degraded",
          last_test |-> t, error |-> FALSE]

\* What the probe may do: raise, return None, return an empty frame, return
\* a frame with a row.
HealthOutcomes ==
    {Outcome("raise", NoTable), Outcome("none", NoTable), Outcome("table", NoTable),
     Outcome("table", Table(<<"num">>, TRUE, FALSE, FALSE))}

\* ------------------------------------------------------------------------
\* rate_limit and download_stock_data
\* ------------------------------------------------------------------------
\* sleep_time of rate_limit(): 0 when no sleep is needed.
SleepTime(current_time, last) ==
    IF current_time - last < min_request_interval
    THEN min_request_interval - (current_time - last)
    ELSE 0

\* Lines 122-150 up to time.sleep: the call starts, validates, and either
\* returns the validation_error response or enters rate_limit(), which reads
\* the clock and last_request_time and sleeps for sleep_time.
RequestFrom(p, inputs) ==
    /\ pc[p] \in {"idle", "done"}
    /\ nreq < MaxRequests
    /\ \E prm \in inputs :
        LET val == Validate(prm) IN
        /\ params' = [params EXCEPT ![p] = prm]
        /\ validation' = [validation EXCEPT ![p] = val]
        /\ request_start_time' = [request_start_time EXCEPT ![p] = now]
        /\ reqid' = [reqid EXCEPT ![p] = nreq + 1]
        /\ nreq' = nreq + 1
        /\ download_args' = [download_args EXCEPT ![p] = NoArgs]
        /\ calls' = [calls EXCEPT ![p] = <<>>]
        /\ IF ~val.valid
           THEN /\ response' = [response EXCEPT ![p] = ValidationErrorResponse(prm, val, now)]
                /\ pc' = [pc EXCEPT ![p] = "done"]
                /\ wake' = wake
           ELSE /\ response' = [response EXCEPT ![p] = NoResponse]
                /\ pc' = [pc EXCEPT ![p] = "rate_limit"]
                /\ wake' = [wake EXCEPT ![p] = now + SleepTime(now, last_request_time)]
    /\ UNCHANGED <<now, last_request_time, fetchLog, status, nhealth, hpc, vin, vres, tin, tres>>

Request(p) == RequestFrom(p, PipeInputs)

\* Lines 87 and 153-181: time.sleep has returned (or was not needed),
\* rate_limit() stores the clock in last_request_time, download_args is built
\* and the first yf.download call begins.
RateLimitDone(p) ==
    /\ pc[p] = "rate_limit"
    /\ now >= wake[p]
    /\ last_request_time' = now
    /\ download_args' = [download_args EXCEPT ![p] = BuildArgs(params[p])]
    /\ calls' = [calls EXCEPT ![p] = <<Call(BuildArgs(params[p]), Running)>>]
    /\ fetchLog' = Append(fetchLog, [t |-> now, req |-> reqid[p], attempt |-> 1])
    /\ pc' = [pc EXCEPT ![p] = "download"]
    /\ UNCHANGED <<now, params, request_start_time, validation, wake, response, reqid,
                   nreq, status, nhealth, hpc, vin, vres, tin, tres>>

\* Lines 181-191 and on: the first yf.download call ends. If it raised, the
\* arguments are updated and the second call begins; otherwise the value is
\* turned into the response, which is returned.
DownloadReturnsFrom(p, outs) ==
    /\ pc[p] = "download"
    /\ \E out \in outs :
        IF out.kind = "raise"
        THEN /\ download_args' = [download_args EXCEPT ![p] = RetryArgs(download_args[p])]
             /\ calls' = [calls EXCEPT ![p] =
                    <<Call(calls[p][1].args, out), Call(RetryArgs(download_args[p]), Running)>>]
             /\ fetchLog' = Append(fetchLog, [t |-> now, req |-> reqid[p], attempt |-> 2])
             /\ pc' = [pc EXCEPT ![p] = "retry"]
             /\ response' = response
        ELSE /\ response' = [response EXCEPT ![p] =
                    Finish(params[p], validation[p], out, now, request_start_time[p])]
             /\ calls' = [calls EXCEPT ![p] = <<Call(calls[p][1].args, out)>>]
             /\ pc' = [pc EXCEPT ![p] = "done"]
             /\ UNCHANGED <<download_args, fetchLog>>
    /\ UNCHANGED <<now, last_request_time, params, request_start_time, validation, wake,
                   reqid, nreq, status, nhealth, hpc, vin, vres, tin, tres>>

DownloadReturns(p) == DownloadReturnsFrom(p, PipeOutcomes)

\* Lines 191-318: the second yf.download call ends. If it raised too, the
\* outer except returns the unexpected_error response.
RetryReturnsFrom(p, outs) ==
    /\ pc[p] = "retry"
    /\ \E out \in outs :
        /\ response' = [response EXCEPT ![p] =
                IF out.kind = "raise"
                THEN UnexpectedErrorResponse(params[p], now, request_start_time[p])
                ELSE Finish(params[p], validation[p], out, now, request_start_time[p])]
        /\ calls' = [calls EXCEPT ![p] = <<calls[p][1], Call(calls[p][2].args, out)>>]
    /\ pc' = [pc EXCEPT ![p] = "done"]
    /\ UNCHANGED <<now, last_request_time, params, request_start_time, validation, wake,
                   download_args, reqid, nreq, fetchLog, status, nhealth, hpc, vin, vres, tin, tres>>

RetryReturns(p) == RetryReturnsFrom(p, PipeOutcomes)

\* The clock advances: while a flow sleeps, while yf.download runs, and
\* between requests.
\* Mutant: get_server_status goes through rate_limit() like a download.
HealthCheckBegins_RateLimited ==
    /\ hpc = "idle"
    /\ nhealth < MaxHealth
    /\ hpc' = "probe"
    /\ nhealth' = nhealth + 1
    /\ last_request_time' = now
    /\ UNCHANGED <<now, pc, params, request_start_time, validation, wake, download_args,
                   calls, response, reqid, nreq, fetchLog, status, vin, vres, tin, tres>>

\* Lines 328-331: get_server_status is called and its probe, yf.download of
\* AAPL, begins. rate_limit() is not called.
HealthCheckBegins ==
    /\ hpc = "idle"
    /\ nhealth < MaxHealth
    /\ hpc' = "probe"
    /\ nhealth' = nhealth + 1
    /\ UNCHANGED <<pipeVars, status, vin, vres, tin, tres>>

\* Lines 331-352: the probe ends and the status document is returned.
HealthCheckReturns ==
    /\ hpc = "probe"
    /\ \E out \in HealthOutcomes : status' = StatusOf(out, now)
    /\ hpc' = "idle"
    /\ UNCHANGED <<pipeVars, nhealth, vin, vres, tin, tres>>

Tick ==
    /\ now < MaxTime
    /\ now' = now + 1
    /\ UNCHANGED <<last_request_time, pc, params, request_start_time, validation, wake,
                   download_args, calls, response, reqid, nreq, fetchLog, status, nhealth, hpc,
                   vin, vres, tin, tres>>

\* ------------------------------------------------------------------------
\* Specifications
\* ------------------------------------------------------------------------
InitPipe ==
    /\ now = min_request_interval
    /\ last_request_time = 0
    /\ pc = [p \in Procs |-> "idle"]
    /\ params = [p \in Procs |-> NoParams]
    /\ request_start_time = [p \in Procs |-> 0]
    /\ validation = [p \in Procs |-> NoValidation]
    /\ wake = [p \in Procs |-> 0]
    /\ download_args = [p \in Procs |-> NoArgs]
    /\ calls = [p \in Procs |-> <<>>]
    /\ response = [p \in Procs |-> NoResponse]
    /\ reqid = [p \in Procs |-> 0]
    /\ nreq = 0
    /\ fetchLog = <<>>
    /\ status = NoStatus
    /\ nhealth = 0
    /\ hpc = "idle"

\* The reference behaviour: one flow, one request at a time.
Init ==
    /\ InitPipe
    /\ vin = NoParams /\ vres = <<>>
    /\ tin = NoTable /\ tres = <<>>

Next ==
    \/ Request(1)
    \/ RateLimitDone(1)
    \/ DownloadReturns(1)
    \/ RetryReturns(1)
    \/ Tick

Spec == Init /\ [][Next]_vars

\* validate_parameters alone, on every combination of the arguments.
RunValidate ==
    /\ vres = <<>>
    /\ vres' = <<Validate(vin)>>
    /\ UNCHANGED <<pipeVars, status, nhealth, hpc, vin, tin, tres>>

InitV ==
    /\ InitPipe
    /\ vin \in {Params(t, p, i, s, e, DefaultFlags) :
                  t \in ValTickers, p \in ValPeriods, i \in ValIntervals,
                  s \in ValDates, e \in ValDates}
    /\ vres = <<>>
    /\ tin = NoTable /\ tres = <<>>

SpecV == InitV /\ [][RunValidate]_vars

\* The conversion of a returned frame alone, on every frame of the bounds.
RunNormalise ==
    /\ tres = <<>>
    /\ \E prm \in {Params(TickerString(1), "1y", "1d", None, None, DefaultFlags),
                   Params(TickerString(1), "1mo", "1d", D_ok, None, DefaultFlags)} :
        tres' = <<Finish(prm, Validate(prm), Outcome("table", tin), now, now)>>
    /\ UNCHANGED <<pipeVars, status, nhealth, hpc, vin, vres, tin>>

InitN ==
    /\ InitPipe
    /\ vin = NoParams /\ vres = <<>>
    /\ tin \in Tables
    /\ tres = <<>>

SpecN == InitN /\ [][RunNormalise]_vars

\* The pipeline, one flow, on requests around the ticker warning limit.
NextT ==
    \/ RequestFrom(1, ManyTickerInputs)
    \/ RateLimitDone(1)
    \/ DownloadReturnsFrom(1, FewOutcomes)
    \/ RetryReturnsFrom(1, FewOutcomes)
    \/ Tick

SpecT == Init /\ [][NextT]_vars

\* Two runs of download_stock_data one after the other: flow 1 is the first
\* run, flow 2 starts when flow 1 has returned.
NextI ==
    \/ nreq = 0 /\ RequestFrom(1, IdemInputs)
    \/ nreq > 0 /\ pc[1] = "done" /\ RequestFrom(2, IdemInputs)
    \/ RateLimitDone(1)
    \/ RateLimitDone(2)
    \/ DownloadReturnsFrom(1, IdemOutcomes)
    \/ DownloadReturnsFrom(2, IdemOutcomes)
    \/ RetryReturnsFrom(1, IdemOutcomes)
    \/ RetryReturnsFrom(2, IdemOutcomes)
    \/ Tick

SpecI == Init /\ [][NextI]_vars

\* The pipeline, one flow, with get_server_status called at any moment.
NextH ==
    \/ RequestFrom(1, IdemInputs)
    \/ RateLimitDone(1)
    \/ DownloadReturnsFrom(1, IdemOutcomes)
    \/ RetryReturnsFrom(1, IdemOutcomes)
    \/ HealthCheckBegins
    \/ HealthCheckReturns
    \/ Tick

SpecH == Init /\ [][NextH]_vars

\* Two flows of download_stock_data at once: each step of one flow (the read
\* of the clock and of last_request_time, the end of the sleep with the write
\* of last_request_time, the end of a yf.download call) may fall between any
\* two steps of the other.
NextC ==
    \/ RequestFrom(1, IdemInputs)
    \/ RequestFrom(2, IdemInputs)
    \/ RateLimitDone(1)
    \/ RateLimitDone(2)
    \/ DownloadReturnsFrom(1, IdemOutcomes)
    \/ DownloadReturnsFrom(2, IdemOutcomes)
    \/ RetryReturnsFrom(1, IdemOutcomes)
    \/ RetryReturnsFrom(2, IdemOutcomes)
    \/ Tick

SpecC == Init /\ [][NextC]_vars

\* ------------------------------------------------------------------------
\* Properties
\* ------------------------------------------------------------------------
\* The fields of a request that break a rule of the validator, stated from
\* the rules: tickers empty or all whitespace; a non-empty period outside
\* valid_periods; an interval outside valid_intervals; a non-empty start or
\* end that strptime rejects.
ViolatedRules(prm) ==
    {f \in {"tickers", "period", "interval", "start", "end"} :
        \/ f = "tickers" /\ \A i \in 1..Len(prm.tickers) : IsSpace(prm.tickers[i])
        \/ f = "period" /\ prm.period # "" /\ \A i \in DOMAIN valid_periods : valid_periods[i] # prm.period
        \/ f = "interval" /\ \A i \in DOMAIN valid_intervals : valid_intervals[i] # prm.interval
        \/ f = "start" /\ prm.start \notin {None, <<>>} /\ ~StrptimeOK(prm.start)
        \/ f = "end" /\ prm.end \notin {None, <<>>} /\ ~StrptimeOK(prm.end)}

ErrorFields(errors) == {errors[i].field : i \in DOMAIN errors}

\* The yf.download calls of request r in the log.
LogOf(r) == {i \in DOMAIN fetchLog : fetchLog[i].req = r}

\* C1: a request whose validation is invalid returns at once the
\* validation_error response listing every accumulated error, without
\* entering rate_limit() (last_request_time keeps its value) and without any
\* yf.download call.
C1_ValidationShortCircuits ==
    [][\A p \in Procs :
        (reqid'[p] # reqid[p] /\ ViolatedRules(params'[p]) # {}) =>
            /\ pc'[p] = "done"
            /\ response'[p].success = FALSE
            /\ response'[p].error_type = "validation_error"
            /\ Len(response'[p].errors) = Cardinality(ViolatedRules(params'[p]))
            /\ ErrorFields(response'[p].errors) = ViolatedRules(params'[p])
            /\ calls'[p] = <<>>
            /\ fetchLog' = fetchLog
            /\ last_request_time' = last_request_time]_vars

\* C1 witness: a request with several errors was refused after an earlier
\* request had set last_request_time, at an instant when rate_limit() would
\* have changed it.
C1_Witness ==
    /\ pc[1] = "done"
    /\ response[1].error_type = "validation_error"
    /\ Len(response[1].errors) >= 2
    /\ last_request_time > 0
    /\ now > last_request_time
    /\ LogOf(reqid[1]) = {}

\* C2: a request calls yf.download at most twice; the second call is made
\* only after the first raised, with timeout 15 and threads False and every
\* other argument as in the first call; when the second call raises too the
\* request ends with unexpected_error and no third call.
C2_AtMostOneRetry ==
    \A p \in Procs :
        LET c == calls[p] IN
        /\ Len(c) <= 2
        /\ Cardinality(LogOf(reqid[p])) = Len(c)
        /\ Len(c) >= 1 =>
            /\ c[1].args.timeout = first_timeout
            /\ c[1].args.threads = TRUE
            /\ (c[1].out.kind = "raise") = (Len(c) = 2)
        /\ Len(c) = 2 =>
            /\ DOMAIN c[2].args = DOMAIN c[1].args
            /\ c[2].args.timeout = retry_timeout
            /\ c[2].args.threads = FALSE
            /\ \A k \in DOMAIN c[1].args \ {"timeout", "threads"} : c[2].args[k] = c[1].args[k]
            /\ c[2].out.kind = "raise" =>
                /\ pc[p] = "done"
                /\ response[p].success = FALSE
                /\ response[p].error_type = "unexpected_error"

\* C2 witness: both calls of a request with a start date raised.
C2_Witness ==
    /\ pc[1] = "done"
    /\ Len(calls[1]) = 2
    /\ calls[1][2].out.kind = "raise"
    /\ "start" \in DOMAIN calls[1][2].args
    /\ response[1].error_type = "unexpected_error"

\* C3: in a sequence of requests served one at a time, the first yf.download
\* call of a request begins at least min_request_interval after every
\* yf.download call of the requests before it.
C3_InvocationsSpaced ==
    \A i, j \in DOMAIN fetchLog :
        (i < j /\ fetchLog[i].req # fetchLog[j].req /\ fetchLog[j].attempt = 1) =>
            fetchLog[j].t - fetchLog[i].t >= min_request_interval

\* The separation that rate_limit() does enforce: between the first calls of
\* two requests, the instants it stores in last_request_time.
RateLimitedCallsSpaced ==
    \A i, j \in DOMAIN fetchLog :
        (i < j /\ fetchLog[i].attempt = 1 /\ fetchLog[j].attempt = 1) =>
            fetchLog[j].t - fetchLog[i].t >= min_request_interval

\* A request slept in rate_limit() and its first call began exactly
\* min_request_interval after the first call of the request before it.
RateLimitedCallsSpacedWitness ==
    /\ Len(fetchLog) >= 2
    /\ pc[1] = "download"
    /\ wake[1] > request_start_time[1]
    /\ \E i \in DOMAIN fetchLog :
        /\ fetchLog[i].attempt = 1 /\ fetchLog[i].req # reqid[1]
        /\ fetchLog[Len(fetchLog)].t - fetchLog[i].t = min_request_interval

\* What the code turns the outcome of the last yf.download call into.
IsNoData(out) == out.kind = "none" \/ (out.kind = "table" /\ Len(out.table.rows) = 0)

LastOut(p) == calls[p][Len(calls[p])].out

\* C4: every call of download_stock_data returns one structured response:
\* success, or a failure whose error_type is validation_error, no_data or
\* unexpected_error, whatever yf.download does; a flow that waits for
\* yf.download has returned nothing yet and can always go on.
C4_AlwaysStructuredResponse ==
    \A p \in Procs :
        /\ pc[p] \in {"rate_limit", "download", "retry"} => response[p] = NoResponse
        /\ pc[p] = "download" => ENABLED DownloadReturns(p)
        /\ pc[p] = "retry" => ENABLED RetryReturns(p)
        /\ pc[p] = "done" =>
            /\ response[p].success \in BOOLEAN
            /\ response[p].success => response[p].error_type = ""
            /\ ~response[p].success =>
                response[p].error_type \in {"validation_error", "no_data", "unexpected_error"}
            /\ response[p].error_type = "validation_error" <=> calls[p] = <<>>
            /\ calls[p] # <<>> =>
                /\ LastOut(p).kind # "running"
                /\ response[p].error_type = "unexpected_error" <=>
                    \/ LastOut(p).kind = "raise"
                    \/ (LastOut(p).kind = "table" /\ ~IsNoData(LastOut(p)) /\ LastOut(p).table.raises)
                /\ response[p].error_type = "no_data" <=> IsNoData(LastOut(p))

\* C4 witness: the frame the retry returned raised while it was converted,
\* and the request ended with unexpected_error.
C4_Witness ==
    /\ pc[1] = "done"
    /\ Len(calls[1]) = 2
    /\ calls[1][2].out.kind = "table"
    /\ calls[1][2].out.table.raises
    /\ response[1].error_type = "unexpected_error"

\* C5: when the value yf.download returned (first call or retry) is None or
\* has no rows, the response is no_data and its request_params are the
\* tickers, period, interval, start and end of the call, unchanged.
C5_NoDataEchoesRequest ==
    \A p \in Procs :
        (pc[p] = "done" /\ calls[p] # <<>> /\ IsNoData(LastOut(p))) =>
            /\ response[p].success = FALSE
            /\ response[p].error_type = "no_data"
            /\ response[p].request_params.tickers = params[p].tickers
            /\ response[p].request_params.period = params[p].period
            /\ response[p].request_params.interval = params[p].interval
            /\ response[p].request_params.start = params[p].start
            /\ response[p].request_params.end = params[p].end

\* C5 witness: the retry of a request with a start date and a period
\* returned an empty frame.
C5_Witness ==
    /\ pc[1] = "done"
    /\ Len(calls[1]) = 2
    /\ LastOut(1).kind = "table"
    /\ IsNoData(LastOut(1))
    /\ Truthy(params[1].start)
    /\ params[1].period # "1y"
    /\ response[1].error_type = "no_data"

\* The rows of a frame whose conversion raises, and the others.
BadRows(rows) == {i \in DOMAIN rows : rows[i] = "bad"}
GoodRows(rows) == DOMAIN rows \ BadRows(rows)

\* The data of a response holds exactly the rows that converted, in order.
DataIsGoodRows(resp, rows) ==
    /\ Len(resp.data) = Cardinality(GoodRows(rows))
    /\ {resp.data[j].date : j \in DOMAIN resp.data} = GoodRows(rows)
    /\ \A j, k \in DOMAIN resp.data : j < k => resp.data[j].date < resp.data[k].date

\* C6 as stated: for a frame of N rows of which k fail to convert, the
\* response is a success whose summary reports total_records = N and
\* records_processed = N - k and whose data holds the N - k converted rows.
C6_Original ==
    (tres # <<>> /\ Len(tin.rows) > 0) =>
        /\ tres[1].success
        /\ tres[1].summary.kind = "stats"
        /\ tres[1].summary.total_records = Len(tin.rows)
        /\ tres[1].summary.records_processed = Len(tin.rows) - Cardinality(BadRows(tin.rows))
        /\ DataIsGoodRows(tres[1], tin.rows)

\* C6 amended: for a frame of N rows of which k fail to convert, the response
\* is a success whose data holds exactly the N - k converted rows in order;
\* the summary reports total_records = N and records_processed = N - k when
\* the frame has a numeric column whose statistics compute, and otherwise
\* carries no counts (no summary, or the summary error marker).
C6_PartialSuccess ==
    (tres # <<>> /\ Len(tin.rows) > 0) =>
        /\ tres[1].success
        /\ DataIsGoodRows(tres[1], tin.rows)
        /\ tres[1].summary.kind =
             (IF ~tin.numeric THEN "absent" ELSE IF tin.summary_raises THEN "error" ELSE "stats")
        /\ tres[1].summary.kind = "stats" =>
            /\ tres[1].summary.total_records = Len(tin.rows)
            /\ tres[1].summary.records_processed = Len(tin.rows) - Cardinality(BadRows(tin.rows))

\* C6 witness: the last of three rows failed and the summary has the counts.
C6_Witness ==
    /\ tres # <<>>
    /\ tin.rows = <<"num", "nan", "bad">>
    /\ tres[1].summary.kind = "stats"
    /\ tres[1].summary.records_processed = 2

\* The date arguments of a call are the truthy ones among start and end and
\* no period, or the period and neither start nor end.
RangeXorPeriod(args, prm) ==
    IF Truthy(prm.start) \/ Truthy(prm.end)
    THEN /\ "period" \notin DOMAIN args
         /\ "start" \in DOMAIN args <=> Truthy(prm.start)
         /\ "end" \in DOMAIN args <=> Truthy(prm.end)
         /\ Truthy(prm.start) => args.start = prm.start
         /\ Truthy(prm.end) => args.end = prm.end
    ELSE /\ "period" \in DOMAIN args
         /\ args.period = prm.period
         /\ "start" \notin DOMAIN args
         /\ "end" \notin DOMAIN args

\* C7: the arguments of every yf.download call, first attempt and retry,
\* carry the supplied start and end and no period when start or end is
\* present, and the period and neither start nor end otherwise; the same holds
\* of the arguments call_tool builds.
C7_RangeXorPeriod ==
    \A p \in Procs :
        /\ \A i \in DOMAIN calls[p] : RangeXorPeriod(calls[p][i].args, params[p])
        /\ pc[p] # "idle" => RangeXorPeriod(CallToolDateArgs(params[p]), params[p])

\* C7 witness: a retry was made for a request with an end date and no start.
C7_Witness ==
    /\ Len(calls[1]) = 2
    /\ ~Truthy(params[1].start)
    /\ Truthy(params[1].end)
    /\ params[1].period # "1y"

\* C8: validate_parameters runs every check: the errors list has one entry
\* for each violated rule, whatever the combination, and valid is true
\* exactly when the list is empty, whatever the warnings.
C8_AllChecksRun ==
    vres # <<>> =>
        /\ Len(vres[1].errors) = Cardinality(ViolatedRules(vin))
        /\ ErrorFields(vres[1].errors) = ViolatedRules(vin)
        /\ vres[1].valid = (vres[1].errors = <<>>)

\* C8 witness: the five rules are violated at once.
C8_Witness ==
    /\ vres # <<>>
    /\ Len(vres[1].errors) = 5
    /\ ~vres[1].valid

\* Some error names the field, echoes the value and lists the options.
HasOptionError(errors, field, value, options) ==
    \E i \in DOMAIN errors :
        /\ errors[i].field = field
        /\ errors[i].value = value
        /\ errors[i].options = options

\* C9 as stated: every period outside valid_periods and every interval
\* outside valid_intervals makes the result invalid, with an error listing
\* the allowed set.
C9_Original ==
    vres # <<>> =>
        /\ vin.period \notin Range(valid_periods) =>
            /\ ~vres[1].valid
            /\ HasOptionError(vres[1].errors, "period", vin.period, valid_periods)
        /\ vin.interval \notin Range(valid_intervals) =>
            /\ ~vres[1].valid
            /\ HasOptionError(vres[1].errors, "interval", vin.interval, valid_intervals)

\* C9 amended: every non-empty period outside valid_periods and every
\* interval outside valid_intervals (the empty one too) makes the result
\* invalid, with an error listing the allowed set; an empty period is
\* accepted without a period error.
C9_UnknownOptionRejected ==
    vres # <<>> =>
        /\ (vin.period # "" /\ vin.period \notin Range(valid_periods)) =>
            /\ ~vres[1].valid
            /\ HasOptionError(vres[1].errors, "period", vin.period, valid_periods)
        /\ vin.period = "" => "period" \notin ErrorFields(vres[1].errors)
        /\ vin.interval \notin Range(valid_intervals) =>
            /\ ~vres[1].valid
            /\ HasOptionError(vres[1].errors, "interval", vin.interval, valid_intervals)

\* C9 witness: an unknown period and an unknown interval, each with its error.
C9_Witness ==
    /\ vres # <<>>
    /\ vin.period = "1w"
    /\ vin.interval = "1y"
    /\ {"period", "interval"} \subseteq ErrorFields(vres[1].errors)

\* Some error is the date-format error of the field, echoing the value.
HasDateError(errors, field, value) ==
    \E i \in DOMAIN errors :
        /\ errors[i].rule = "date_format"
        /\ errors[i].field = field
        /\ errors[i].value = value

\* C10: a supplied (non-empty) start or end that does not parse as
\* YYYY-MM-DD, such as 2024/01/01, makes the result invalid with a date-format
\* error naming the field and echoing the value; a malformed start and a
\* malformed end each have their own error.
C10_MalformedDateRejected ==
    vres # <<>> =>
        /\ (Truthy(vin.start) /\ (~StrptimeOK(vin.start) \/ vin.start = D_slash)) =>
            /\ ~vres[1].valid
            /\ HasDateError(vres[1].errors, "start", vin.start)
        /\ (Truthy(vin.end) /\ (~StrptimeOK(vin.end) \/ vin.end = D_slash)) =>
            /\ ~vres[1].valid
            /\ HasDateError(vres[1].errors, "end", vin.end)
        /\ Cardinality({i \in DOMAIN vres[1].errors : vres[1].errors[i].rule = "date_format"})
             = Cardinality({f \in {"start", "end"} : Truthy(vin[f]) /\ ~StrptimeOK(vin[f])})

\* C10 witness: start is 2024/01/01 and end is another malformed date.
C10_Witness ==
    /\ vres # <<>>
    /\ vin.start = D_slash
    /\ Truthy(vin.end) /\ vin.end # D_slash /\ ~StrptimeOK(vin.end)
    /\ HasDateError(vres[1].errors, "start", vin.start)
    /\ HasDateError(vres[1].errors, "end", vin.end)

\* The number of tickers of a tickers string: the positions where a run of
\* non-whitespace characters begins.
TickerCount(t) ==
    Cardinality({i \in 1..Len(t) : ~IsSpace(t[i]) /\ (i = 1 \/ IsSpace(t[i - 1]))})

HasManyTickersWarning(warnings, n) ==
    \E i \in DOMAIN warnings : warnings[i].warning = "many_tickers" /\ warnings[i].count = n

\* C11: a request with more than ten tickers and otherwise valid arguments
\* is valid with a warning about possible timeouts, and is not rejected: it
\* enters rate_limit(), then calls yf.download, and its success response
\* carries the warning.
C11_ManyTickersWarnOnly ==
    \A p \in Procs :
        (reqid[p] > 0 /\ TickerCount(params[p].tickers) > ticker_warn_limit
            /\ ViolatedRules(params[p]) = {}) =>
            /\ validation[p].valid
            /\ HasManyTickersWarning(validation[p].warnings, TickerCount(params[p].tickers))
            /\ pc[p] \in {"rate_limit", "download", "retry", "done"}
            /\ pc[p] = "rate_limit" =>
                /\ calls[p] = <<>>
                /\ now >= wake[p] => ENABLED RateLimitDone(p)
            /\ pc[p] # "rate_limit" =>
                /\ calls[p] # <<>>
                /\ LogOf(reqid[p]) # {}
                /\ last_request_time >= request_start_time[p]
            /\ pc[p] = "done" =>
                /\ response[p].error_type # "validation_error"
                /\ response[p].success =>
                    HasManyTickersWarning(response[p].metadata.warnings,
                                          TickerCount(params[p].tickers))

\* C11 witness: a request with twelve tickers slept in rate_limit() and
\* ended with a success that carries the warning.
C11_Witness ==
    /\ pc[1] = "done"
    /\ TickerCount(params[1].tickers) = ticker_warn_limit + 2
    /\ wake[1] > request_start_time[1]
    /\ response[1].success
    /\ HasManyTickersWarning(response[1].metadata.warnings, ticker_warn_limit + 2)

\* A success result without its two clock readings.
WithoutTimes(r) ==
    [r EXCEPT !.metadata = [@ EXCEPT !.request_time = 0, !.processing_time_seconds = 0]]

\* Two finished runs with the same valid parameters whose result was made
\* from the same frame.
SameRunTwice ==
    /\ pc[1] = "done" /\ pc[2] = "done"
    /\ reqid[1] > 0 /\ reqid[2] > 0
    /\ params[1] = params[2]
    /\ ViolatedRules(params[1]) = {}
    /\ response[1].success /\ response[2].success
    /\ LastOut(1) = LastOut(2)

\* C12: two runs of download_stock_data with the same valid parameters and
\* the same frame from yf.download return results equal in every field but
\* metadata.request_time and metadata.processing_time_seconds, whatever
\* last_request_time was when each run began.
C12_Idempotent ==
    SameRunTwice => WithoutTimes(response[1]) = WithoutTimes(response[2])

\* C12 witness: the first run found last_request_time at 0 and did not sleep,
\* the second found it set by the first and slept; the results differ in
\* both clock readings and in nothing else.
C12_Witness ==
    /\ SameRunTwice
    /\ wake[1] = request_start_time[1]
    /\ wake[2] > request_start_time[2]
    /\ Len(response[1].data) = 2
    /\ response[1].metadata.warnings # <<>>
    /\ response[1].metadata.request_time # response[2].metadata.request_time
    /\ response[1].metadata.processing_time_seconds
           # response[2].metadata.processing_time_seconds
    /\ WithoutTimes(response[1]) = WithoutTimes(response[2])

\* The time of the last rate-limited yf.download call in the log, 0 if none.
LastGated ==
    LET ts == {fetchLog[i].t : i \in {j \in DOMAIN fetchLog : fetchLog[j].attempt = 1}} IN
    IF ts = {} THEN 0 ELSE CHOOSE t \in ts : \A u \in ts : u <= t

\* A step of get_server_status: it begins or it returns.
HealthStep == nhealth' # nhealth \/ hpc' # hpc \/ status' # status

WellFormedStatus ==
    \/ /\ status.server = "healthy"
       /\ status.yfinance_connection \in {"ok", "degraded"}
       /\ ~status.error
    \/ /\ status.server = "degraded"
       /\ status.yfinance_connection = "error"
       /\ status.error

\* C13: no step of get_server_status changes last_request_time or anything
\* else of the download pipeline, so the sleep of a download request is the
\* one its own clock reading and the last rate-limited download call give,
\* health checks or not; and a health check whose probe has begun can always
\* return, and what it returns is a status document, whether the probe raised,
\* returned nothing, an empty frame or data.
C13_HealthCheckLeavesLimiter ==
    /\ [][HealthStep => UNCHANGED pipeVars]_vars
    /\ [](\A p \in Procs : pc[p] = "rate_limit" =>
            wake[p] = request_start_time[p] + SleepTime(request_start_time[p], LastGated))
    /\ [](hpc = "probe" => ENABLED HealthCheckReturns)
    /\ []((nhealth > 0 /\ hpc = "idle") => WellFormedStatus)

\* C13 witness: a health check whose probe raised returned between two
\* download requests, at the moment the second began, and the second did not
\* sleep.
C13_Witness ==
    /\ nhealth > 0 /\ hpc = "idle"
    /\ status.server = "degraded" /\ status.error
    /\ reqid[1] = 2
    /\ pc[1] = "rate_limit"
    /\ Len(fetchLog) > 0
    /\ status.last_test = request_start_time[1]
    /\ LastGated < status.last_test
    /\ wake[1] = request_start_time[1]

\* The positions in the log of the rate-limited yf.download calls.
GatedCalls == {i \in DOMAIN fetchLog : fetchLog[i].attempt = 1}

\* C14: with two flows whose rate_limit() executions interleave, the
\* rate-limited yf.download calls of different requests begin at least
\* min_request_interval apart, and in the order in which the requests entered
\* rate_limit().
C14_ConcurrentSpacedInOrder ==
    \A i, j \in GatedCalls :
        i < j =>
            /\ fetchLog[j].t - fetchLog[i].t >= min_request_interval
            /\ fetchLog[i].req < fetchLog[j].req

\* The time last_request_time holds when the call at position i of the log
\* begins: that of the last rate-limited call before it, 0 if there is none.
RecordedBefore(i) ==
    LET ts == {fetchLog[j].t : j \in {k \in GatedCalls : k < i}} IN
    IF ts = {} THEN 0 ELSE CHOOSE t \in ts : \A u \in ts : u <= t

\* rate_limit() runs once per validated request, before its first yf.download
\* call, and last_request_time is the time of the last rate-limited call.
GatedOncePerRequest ==
    /\ \A i, j \in GatedCalls : fetchLog[i].req = fetchLog[j].req => i = j
    /\ \A i \in DOMAIN fetchLog :
        fetchLog[i].attempt = 2 =>
            \E j \in GatedCalls : j < i /\ fetchLog[j].req = fetchLog[i].req
    /\ \A p \in Procs : calls[p] # <<>> => \E j \in GatedCalls : fetchLog[j].req = reqid[p]
    /\ last_request_time = LastGated

\* Every yf.download call, first attempt or retry, begins at least
\* min_request_interval after the call last_request_time records.
EveryAttemptSpaced ==
    \A i \in DOMAIN fetchLog :
        fetchLog[i].t - RecordedBefore(i) >= min_request_interval

\* C15: every yf.download call of download_stock_data is gated by the rate
\* limiter: rate_limit() runs once per validated request before the first
\* call, and every call, the retry included, begins at least
\* min_request_interval after the call recorded in last_request_time, which
\* never goes back.
C15_EveryAttemptGated ==
    GatedOncePerRequest /\ EveryAttemptSpaced

====
